---- MODULE Spec2Model ----
(***************************************************************************)
(* Orchestration core of the multi-agent think tank: the workflow-node     *)
(* state machine (workflow/base_node.py) and the agents' process /         *)
(* collaborate protocol with its confidence decay (agents/*.py).           *)
(***************************************************************************)
EXTENDS Integers, Sequences, FiniteSets, TLC

(***************************************************************************)
(* Bounds of the model.                                                    *)
(***************************************************************************)
\* node API calls in one behaviour of the unrestricted specification
MaxSteps == 3
\* entries a node's error list may hold
MaxErrors == 4
\* edges (add_next_node calls) in one behaviour
MaxEdges == 2
\* failed agent calls in one behaviour
MaxFailures == 3

(***************************************************************************)
(* Workflow nodes: three nodes with their NodeConfig.                      *)
(***************************************************************************)
Nodes == {"A", "B", "C"}

\* a pipeline P -> Q and a single node R, each requiring one agent (R the
\* agent of Q)
Pipeline == {"P", "Q", "R"}

\* every node instance
Instances == Nodes \cup Pipeline

\* The seven concrete agents, one instance each.
Agents == {"strategist", "analyst", "creative", "synthesizer",
           "implementer", "researcher", "challenger"}

\* AgentPersonality.name of each concrete agent
PersonalityName(a) ==
    CASE a = "strategist"  -> "Strategist"
      [] a = "analyst"     -> "Analyst"
      [] a = "creative"    -> "Creative Thinker"
      [] a = "synthesizer" -> "Synthesizer"
      [] a = "implementer" -> "Implementer"
      [] a = "researcher"  -> "Researcher"
      [] a = "challenger"  -> "Challenger"

\* str.lower() on the strings the model uses
Lower(s) ==
    CASE s = "Strategist"       -> "strategist"
      [] s = "Analyst"          -> "analyst"
      [] s = "Creative Thinker" -> "creative thinker"
      [] s = "Synthesizer"      -> "synthesizer"
      [] s = "Implementer"      -> "implementer"
      [] s = "Researcher"       -> "researcher"
      [] s = "Challenger"       -> "challenger"
      [] OTHER                  -> s

\* NodeConfig.required_agents of each node
RequiredAgents(n) ==
    CASE n = "A" -> {"creative"}
      [] n = "B" -> {"researcher", "challenger"}
      [] n = "C" -> {}
      [] n = "P" -> {"analyst"}
      [] n = "Q" -> {"researcher"}
      [] n = "R" -> {"researcher"}

\* NodeConfig.max_iterations of each node
MaxIterations(n) ==
    CASE n = "A" -> 1
      [] n = "B" -> 2
      [] n = "C" -> 3
      [] n = "P" -> 3
      [] n = "Q" -> 3
      [] n = "R" -> 1

\* str(error) of the exceptions handed to handle_error
Errs == {"e1", "e2"}

\* dict objects: for each node a dict that only the node refers to (its default
\* results dict, or a dict literal handed to complete), and dicts that the
\* caller of complete keeps a reference to
OwnDict(n) == "own" \o n
CallerDicts == {"r1", "r2"}
DictIds == {OwnDict(n) : n \in Instances} \cup CallerDicts

\* contents of a dict: its set of keys
NoKeys == {}
CallerKeys(d) == IF d = "r1" THEN {"k1"} ELSE {"k2"}
FreshKeys == {"k0"}

VARIABLES
    active,               \* NodeState.active
    completed,            \* NodeState.completed
    iteration,            \* NodeState.iteration
    results,              \* NodeState.results: the dict object it refers to
    errors,               \* NodeState.errors
    next_nodes,           \* BaseWorkflowNode.next_nodes
    previous_nodes,       \* BaseWorkflowNode.previous_nodes
    participating_agents, \* BaseWorkflowNode.participating_agents
    heap,                 \* contents (key sets) of the dict objects
    ret,                  \* outcome of the latest node API call
    steps,                \* calls, or rounds of the graph, made so far (where limited)
    handled,              \* history: handle_error calls per node since its latest start()
    pending,              \* driver: the readiness check a process call relies on
    before,               \* history: AgentState of the called agent when each task's call began
    run,                  \* driver: where the retry protocol stands for each node
    current_task,         \* AgentState.current_task of each agent
    confidence,           \* AgentState.confidence of each agent, as a fraction
    stack,                \* the process / collaborate calls in flight in each task
    outcome,              \* what the latest call of each task returned or raised
    process_failures,     \* history: failed process() calls of each agent
    collaborate_failures, \* history: failed collaborate() calls of each agent
    memory,               \* AgentState.memory of each agent: its keys
    context,              \* AgentState.context of each agent: its keys
    knowledge_base,       \* BaseAgent.knowledge_base of each agent
    history,              \* analysis_history, strategic_plans, ..., synthesis_history: the tasks whose result each agent's store holds
    current_analysis,     \* AnalystAgent.current_analysis: the task whose result it is
    concept_network       \* SynthesizerAgent.concept_network: the task whose concepts it was built from

nodeVars == <<active, completed, iteration, results, errors, next_nodes,
              previous_nodes, participating_agents, heap, ret>>

driverVars == <<steps, handled, pending, before, run>>

agentVars == <<current_task, confidence, stack, outcome, process_failures,
               collaborate_failures, memory, context, knowledge_base, history,
               current_analysis, concept_network>>

vars == <<nodeVars, driverVars, agentVars>>

NoBinding == [k \in {} |-> "none"]

Returned(op, n, out) == [op |-> op, node |-> n, out |-> out, info |-> {}]
Raised(op, n, exc, info) == [op |-> op, node |-> n, out |-> exc, info |-> info]

\* NodeState(), BaseWorkflowNode.__init__
InitNodes ==
    /\ active = [n \in Instances |-> FALSE]
    /\ completed = [n \in Instances |-> FALSE]
    /\ iteration = [n \in Instances |-> 0]
    /\ results = [n \in Instances |-> OwnDict(n)]
    /\ errors = [n \in Instances |-> <<>>]
    /\ next_nodes = [n \in Instances |-> <<>>]
    /\ previous_nodes = [n \in Instances |-> <<>>]
    /\ heap = [d \in DictIds |-> IF d \in CallerDicts THEN CallerKeys(d) ELSE NoKeys]
    /\ ret = Returned("init", "A", "None")

\* mutant: connect_agent that binds the agent whether or not it is required
ConnectAgent_BindsAny(n, a) ==
    LET key == Lower(PersonalityName(a)) IN
    /\ participating_agents' =
         [participating_agents EXCEPT ![n] =
            [k \in DOMAIN @ \cup {key} |-> IF k = key THEN a ELSE @[k]]]
    /\ ret' = [Returned("connect_agent", n, "None") EXCEPT !.info = {a}]
    /\ UNCHANGED <<active, completed, iteration, results, errors, next_nodes,
                   previous_nodes, heap>>

\* BaseWorkflowNode.connect_agent
ConnectAgent(n, a) ==
    LET key == Lower(PersonalityName(a)) IN
    /\ participating_agents' =
         IF key \in RequiredAgents(n)
         THEN [participating_agents EXCEPT ![n] =
                 [k \in DOMAIN @ \cup {key} |-> IF k = key THEN a ELSE @[k]]]
         ELSE participating_agents
    /\ ret' = [Returned("connect_agent", n, "None") EXCEPT !.info = {a}]
    /\ UNCHANGED <<active, completed, iteration, results, errors, next_nodes,
                   previous_nodes, heap>>

\* the nodes of a list
Range(seq) == {seq[i] : i \in DOMAIN seq}

\* number of edges of the graph
EdgeCount ==
    Len(next_nodes["A"]) + Len(next_nodes["B"]) + Len(next_nodes["C"])
      + Len(next_nodes["P"]) + Len(next_nodes["Q"]) + Len(next_nodes["R"])

\* mutant: add_next_node that leaves the other node's previous_nodes alone
AddNextNode_ForwardOnly(n, m) ==
    /\ EdgeCount < MaxEdges
    /\ next_nodes' = [next_nodes EXCEPT ![n] = Append(@, m)]
    /\ ret' = [Returned("add_next_node", n, "None") EXCEPT !.info = {m}]
    /\ UNCHANGED <<active, completed, iteration, results, errors,
                   previous_nodes, participating_agents, heap>>

\* BaseWorkflowNode.add_next_node
AddNextNode(n, m) ==
    /\ EdgeCount < MaxEdges
    /\ next_nodes' = [next_nodes EXCEPT ![n] = Append(@, m)]
    /\ previous_nodes' = [previous_nodes EXCEPT ![m] = Append(@, n)]
    /\ ret' = [Returned("add_next_node", n, "None") EXCEPT !.info = {m}]
    /\ UNCHANGED <<active, completed, iteration, results, errors,
                   participating_agents, heap>>

\* mutant: the loop returns on its first predecessor, whatever its state
PreviousCompleted_FirstOnly(prev, done) ==
    IF prev = <<>> THEN TRUE ELSE done[Head(prev)]

\* the for loop of validate_readiness over previous_nodes, with its early return
RECURSIVE PreviousCompleted(_, _)
PreviousCompleted(prev, done) ==
    IF prev = <<>> THEN TRUE
    ELSE IF ~done[Head(prev)] THEN FALSE
    ELSE PreviousCompleted(Tail(prev), done)

\* missing_agents of validate_readiness
MissingAgents(n) == RequiredAgents(n) \ DOMAIN participating_agents[n]

\* mutant: the predecessors are checked before the required agents
ReadinessOutcome_PredecessorsFirst(n) ==
    IF \E i \in DOMAIN previous_nodes[n] : ~completed[previous_nodes[n][i]]
    THEN Returned("validate_readiness", n, "False")
    ELSE IF RequiredAgents(n) \ DOMAIN participating_agents[n] # {}
         THEN Raised("validate_readiness", n, "ValueError",
                     RequiredAgents(n) \ DOMAIN participating_agents[n])
         ELSE Returned("validate_readiness", n, "True")

\* what validate_readiness returns or raises in the current state
ReadinessOutcome(n) ==
    IF MissingAgents(n) # {}
    THEN Raised("validate_readiness", n, "ValueError", MissingAgents(n))
    ELSE IF PreviousCompleted(previous_nodes[n], completed)
         THEN Returned("validate_readiness", n, "True")
         ELSE Returned("validate_readiness", n, "False")

\* mutant: validate_readiness that records a missing-agent failure in the
\* node's error list
ValidateReadiness_RecordsMissing(n) ==
    /\ ret' = ReadinessOutcome(n)
    /\ errors' = IF MissingAgents(n) # {} /\ Len(errors[n]) < MaxErrors
                 THEN [errors EXCEPT ![n] = Append(@, "e1")]
                 ELSE errors
    /\ UNCHANGED <<active, completed, iteration, results, next_nodes,
                   previous_nodes, participating_agents, heap>>

\* BaseWorkflowNode.validate_readiness
ValidateReadiness(n) ==
    /\ ret' = ReadinessOutcome(n)
    /\ UNCHANGED <<active, completed, iteration, results, errors, next_nodes,
                   previous_nodes, participating_agents, heap>>

\* mutant: start() that keeps the error list
Start_KeepErrors(n) ==
    /\ active' = [active EXCEPT ![n] = TRUE]
    /\ iteration' = [iteration EXCEPT ![n] = 0]
    /\ completed' = [completed EXCEPT ![n] = FALSE]
    /\ heap' = [heap EXCEPT ![results[n]] = NoKeys]
    /\ ret' = Returned("start", n, "None")
    /\ UNCHANGED <<results, errors, next_nodes, previous_nodes, participating_agents>>

\* BaseWorkflowNode.start
Start(n) ==
    /\ active' = [active EXCEPT ![n] = TRUE]
    /\ iteration' = [iteration EXCEPT ![n] = 0]
    /\ completed' = [completed EXCEPT ![n] = FALSE]
    /\ heap' = [heap EXCEPT ![results[n]] = NoKeys]
    /\ errors' = [errors EXCEPT ![n] = <<>>]
    /\ ret' = Returned("start", n, "None")
    /\ UNCHANGED <<results, next_nodes, previous_nodes, participating_agents>>

\* mutant: complete() that leaves the active flag alone
Complete_KeepActive(n, d) ==
    /\ completed' = [completed EXCEPT ![n] = TRUE]
    /\ results' = [results EXCEPT ![n] = d]
    /\ ret' = [Returned("complete", n, "None") EXCEPT !.info = {d}]
    /\ UNCHANGED <<active, iteration, errors, next_nodes, previous_nodes,
                   participating_agents, heap>>

\* BaseWorkflowNode.complete, called with a dict the caller keeps a reference to
Complete(n, d) ==
    /\ active' = [active EXCEPT ![n] = FALSE]
    /\ completed' = [completed EXCEPT ![n] = TRUE]
    /\ results' = [results EXCEPT ![n] = d]
    /\ ret' = [Returned("complete", n, "None") EXCEPT !.info = {d}]
    /\ UNCHANGED <<iteration, errors, next_nodes, previous_nodes,
                   participating_agents, heap>>

\* BaseWorkflowNode.complete, called with a dict nothing else refers to
CompleteFresh(n) ==
    /\ active' = [active EXCEPT ![n] = FALSE]
    /\ completed' = [completed EXCEPT ![n] = TRUE]
    /\ results' = [results EXCEPT ![n] = OwnDict(n)]
    /\ heap' = [heap EXCEPT ![OwnDict(n)] = FreshKeys]
    /\ ret' = [Returned("complete", n, "None") EXCEPT !.info = {OwnDict(n)}]
    /\ UNCHANGED <<iteration, errors, next_nodes, previous_nodes,
                   participating_agents>>

\* mutant: handle_error that raises only when the count reaches max_iterations
HandleError_RaisesOnce(n, e) ==
    /\ Len(errors[n]) < MaxErrors
    /\ errors' = [errors EXCEPT ![n] = Append(@, e)]
    /\ ret' = IF Len(errors'[n]) = MaxIterations(n)
              THEN Raised("handle_error", n, "RuntimeError", {})
              ELSE Returned("handle_error", n, "None")
    /\ UNCHANGED <<active, completed, iteration, results, next_nodes,
                   previous_nodes, participating_agents, heap>>

\* mutant: handle_error that raises only past max_iterations
HandleError_OffByOne(n, e) ==
    /\ Len(errors[n]) < MaxErrors
    /\ errors' = [errors EXCEPT ![n] = Append(@, e)]
    /\ ret' = IF Len(errors'[n]) > MaxIterations(n)
              THEN Raised("handle_error", n, "RuntimeError", {})
              ELSE Returned("handle_error", n, "None")
    /\ UNCHANGED <<active, completed, iteration, results, next_nodes,
                   previous_nodes, participating_agents, heap>>

\* BaseWorkflowNode.handle_error
HandleError(n, e) ==
    /\ Len(errors[n]) < MaxErrors
    /\ errors' = [errors EXCEPT ![n] = Append(@, e)]
    /\ ret' = IF Len(errors'[n]) >= MaxIterations(n)
              THEN Raised("handle_error", n, "RuntimeError", {})
              ELSE Returned("handle_error", n, "None")
    /\ UNCHANGED <<active, completed, iteration, results, next_nodes,
                   previous_nodes, participating_agents, heap>>

\* no call has begun
NoBefore == [agent |-> "-", task |-> <<>>, confidence |-> <<0, 1>>,
             memory |-> {}, context |-> {}]

\* the retry protocol has not begun on a node
NotRun == [pc |-> "idle", attempts |-> 0]

\* no readiness check is pending
NoPending == [node |-> "-", previous |-> {}, seen |-> {}, restarted |-> {}]

(***************************************************************************)
(* Agents: AgentState, and process / collaborate of the concrete agents.   *)
(***************************************************************************)
\* the tasks (coroutines of the caller) that call the agents
Tasks == {"t1", "t2"}

\* AgentState.current_task = None
NoTask == <<>>

\* a text is the sequence of its words
\* the words of AgentPersonality.name
NameWords(a) ==
    CASE a = "strategist"  -> <<"Strategist">>
      [] a = "analyst"     -> <<"Analyst">>
      [] a = "creative"    -> <<"Creative", "Thinker">>
      [] a = "synthesizer" -> <<"Synthesizer">>
      [] a = "implementer" -> <<"Implementer">>
      [] a = "researcher"  -> <<"Researcher">>
      [] a = "challenger"  -> <<"Challenger">>

\* the current_task label that process() sets
ProcessTask(a) ==
    CASE a = "strategist"  -> <<"strategic_analysis">>
      [] a = "analyst"     -> <<"data_analysis">>
      [] a = "creative"    -> <<"idea_generation">>
      [] a = "synthesizer" -> <<"concept_synthesis">>
      [] a = "implementer" -> <<"implementation_planning">>
      [] a = "researcher"  -> <<"research_investigation">>
      [] a = "challenger"  -> <<"critical_evaluation">>

\* the current_task label that collaborate() sets: a prefix, then the peer's name
CollaborateTask(a, peer) ==
    (CASE a = "strategist"  -> <<"collaboration_with_">>
       [] a = "analyst"     -> <<"collaboration_with_">>
       [] a = "creative"    -> <<"creative_collaboration_with_">>
       [] a = "synthesizer" -> <<"collaborative_synthesis_with_">>
       [] a = "implementer" -> <<"implementation_collaboration_with_">>
       [] a = "researcher"  -> <<"research_collaboration_with_">>
       [] a = "challenger"  -> <<"collaborative_evaluation_with_">>)
    \o NameWords(peer)

\* the text that process() puts before str(e) when it re-raises
ProcessFailure(a) ==
    CASE a = "strategist"  -> <<"Strategic", "analysis", "failed:">>
      [] a = "analyst"     -> <<"Analysis", "failed:">>
      [] a = "creative"    -> <<"Creative", "process", "failed:">>
      [] a = "synthesizer" -> <<"Synthesis", "process", "failed:">>
      [] a = "implementer" -> <<"Implementation", "planning", "failed:">>
      [] a = "researcher"  -> <<"Research", "process", "failed:">>
      [] a = "challenger"  -> <<"Critical", "evaluation", "failed:">>

\* the text that collaborate() puts before str(e) when it re-raises
CollaborateFailure(a) ==
    CASE a = "strategist"  -> <<"Strategic", "collaboration", "failed:">>
      [] a = "analyst"     -> <<"Collaborative", "analysis", "failed:">>
      [] a = "creative"    -> <<"Creative", "collaboration", "failed:">>
      [] a = "synthesizer" -> <<"Collaborative", "synthesis", "failed:">>
      [] a = "implementer" -> <<"Implementation", "collaboration", "failed:">>
      [] a = "researcher"  -> <<"Research", "collaboration", "failed:">>
      [] a = "challenger"  -> <<"Collaborative", "evaluation", "failed:">>

\* str(e) of the exception that an internal stage raises
StageError == <<"stage", "error">>

\* fractions <<numerator, denominator>>
One == <<1, 1>>
Times(c, f) == <<c[1] * f[1], c[2] * f[2]>>
Same(c, d) == c[1] * d[2] = d[1] * c[2]
AtMost(c, d) == c[1] * d[2] <= d[1] * c[2]

RECURSIVE Power(_, _)
Power(f, k) == IF k = 0 THEN One ELSE Times(Power(f, k - 1), f)

\* confidence *= 0.8 in the except clause of process()
ProcessPenalty == <<8, 10>>
\* confidence *= 0.9 in the except clause of collaborate()
CollaboratePenalty == <<9, 10>>

\* a call frame
Frame(fn, a, peer) == [fn |-> fn, agent |-> a, peer |-> peer]

\* the keys of the dict that a call returns which hold the confidence
\* (self.state.confidence), the peer's name (other_agent.personality.name)
\* and a timestamp (datetime.now().isoformat())
ResultKeys(fn, a) ==
    CASE fn = "process" /\ a = "strategist" -> {"confidence"}
      [] fn = "process" /\ a # "strategist" -> {"confidence_score", "timestamp"}
      [] fn = "collaborate" /\ a = "strategist" -> {"collaboration_partner"}
      [] fn = "collaborate" /\ a = "analyst" ->
           {"confidence_score", "collaboration_metadata.partner",
            "collaboration_metadata.timestamp"}
      [] fn = "collaborate" /\ a \notin {"strategist", "analyst"} ->
           {"collaboration_metadata.partner", "collaboration_metadata.timestamp"}
      [] fn = "reflect" -> {"confidence"}
      [] OTHER -> {}

\* what the latest call of a task returned or raised; none while a call runs
NoOutcome ==
    [fn |-> "-", agent |-> "-", peer |-> "-", kind |-> "-", error |-> <<>>,
     confidence |-> <<0, 1>>, task |-> NoTask, carries |-> {}]
Outcome(fn, a, peer, kind, error) ==
    [fn |-> fn, agent |-> a, peer |-> peer, kind |-> kind, error |-> error,
     confidence |-> confidence'[a], task |-> current_task'[a],
     carries |-> IF kind = "returned" THEN ResultKeys(fn, a) ELSE {}]

\* nx.Graph(), the concept network of a new Synthesizer
EmptyGraph == "empty"

\* the keys of the dicts that _generate_challenges builds, and the keys that
\* process() of the Challenger reads from each of them to store it
ChallengeKeys == {"challenge", "evidence", "critique", "severity", "confidence"}
StoredChallengeKeys == {"type", "description"}

\* no call writes the stores of the agents
StoresStill == UNCHANGED <<history, current_analysis, concept_network>>

\* the stores when process() of agent a returns to task t: the result is
\* stored after the last stage. The Synthesizer's network is the one its
\* second stage built. The Challenger stores one entry per challenge, and
\* returns only if there is none to store, the keys it reads being absent
StoresOnReturn(t, a) ==
    /\ history' = IF a = "challenger" /\ ~(StoredChallengeKeys \subseteq ChallengeKeys)
                  THEN history
                  ELSE [history EXCEPT ![a] = @ \cup {t}]
    /\ current_analysis' = IF a = "analyst" THEN t ELSE current_analysis
    /\ concept_network' = IF a = "synthesizer" THEN t ELSE concept_network

\* the stores when process() of agent a raises in task t: the statements
\* that store the result have not run; the Synthesizer's second stage,
\* _build_concept_network, has replaced concept_network if a later stage
\* is the one that raised
StoresOnRaise(t, a) ==
    /\ UNCHANGED <<history, current_analysis>>
    /\ concept_network' \in IF a = "synthesizer" THEN {concept_network, t}
                             ELSE {concept_network}

\* AgentState(), BaseAgent.__init__
InitAgents ==
    /\ current_task = [a \in Agents |-> NoTask]
    /\ confidence = [a \in Agents |-> One]
    /\ stack = [t \in Tasks |-> <<>>]
    /\ outcome = [t \in Tasks |-> NoOutcome]
    /\ process_failures = [a \in Agents |-> 0]
    /\ collaborate_failures = [a \in Agents |-> 0]
    /\ memory = [a \in Agents |-> NoKeys]
    /\ context = [a \in Agents |-> NoKeys]
    /\ knowledge_base = [a \in Agents |-> "None"]
    /\ history = [a \in Agents |-> {}]
    /\ current_analysis = "None"
    /\ concept_network = EmptyGraph

\* the agents that a call has touched
InPlay == {a \in Agents : current_task[a] # NoTask}

\* collaboration is pairwise: the calls of one behaviour stay within one
\* caller / peer pair of agents
WithinPair(S) == \E x \in S, y \in S : S \subseteq {x, y}

RECURSIVE Total(_, _)
Total(f, S) ==
    IF S = {} THEN 0
    ELSE LET a == CHOOSE x \in S : TRUE IN f[a] + Total(f, S \ {a})

\* failed calls so far
Failures == Total(process_failures, Agents) + Total(collaborate_failures, Agents)

\* the agents whose process() calls access_knowledge_base, which raises
\* ValueError if no knowledge base is attached
ReadsKnowledgeBase(a) == a = "strategist"

\* agent.knowledge_base = kb: the owner of the agent attaches a knowledge base
AttachKnowledgeBase(a) ==
    /\ ReadsKnowledgeBase(a)
    /\ knowledge_base[a] = "None"
    /\ \A t \in Tasks : stack[t] = <<>>
    /\ knowledge_base' = [knowledge_base EXCEPT ![a] = "kb"]
    /\ UNCHANGED <<current_task, confidence, stack, outcome, process_failures,
                   collaborate_failures, memory, context>>
    /\ StoresStill

\* process(): update_state, up to the first await of an internal stage
CallProcess(t, a) ==
    /\ UNCHANGED <<memory, context, knowledge_base>>
    /\ StoresStill
    /\ stack[t] = <<>>
    /\ WithinPair(InPlay \cup {a})
    /\ current_task' = [current_task EXCEPT ![a] = ProcessTask(a)]
    /\ stack' = [stack EXCEPT ![t] = <<Frame("process", a, "-")>>]
    /\ outcome' = [outcome EXCEPT ![t] = NoOutcome]
    /\ UNCHANGED <<confidence, process_failures, collaborate_failures>>

\* mutant: collaborate() that calls the peer's collaborate(), which calls
\* process()
CallCollaborate_PeerCollaborates(t, a, peer) ==
    /\ UNCHANGED <<memory, context, knowledge_base>>
    /\ StoresStill
    /\ stack[t] = <<>>
    /\ WithinPair(InPlay \cup {a, peer})
    /\ current_task' = [[current_task EXCEPT ![peer] = CollaborateTask(peer, a)]
                           EXCEPT ![a] = ProcessTask(a)]
    /\ stack' = [stack EXCEPT ![t] = <<Frame("collaborate", a, peer),
                                       Frame("collaborate", peer, a),
                                       Frame("process", a, "-")>>]
    /\ outcome' = [outcome EXCEPT ![t] = NoOutcome]
    /\ UNCHANGED <<confidence, process_failures, collaborate_failures>>

\* mutant: collaborate() that labels the caller with its own name
CallCollaborate_OwnName(t, a, peer) ==
    /\ UNCHANGED <<memory, context, knowledge_base>>
    /\ StoresStill
    /\ stack[t] = <<>>
    /\ WithinPair(InPlay \cup {a, peer})
    /\ current_task' = [[current_task EXCEPT ![a] = CollaborateTask(a, a)]
                           EXCEPT ![peer] = ProcessTask(peer)]
    /\ stack' = [stack EXCEPT ![t] = <<Frame("collaborate", a, peer),
                                       Frame("process", peer, "-")>>]
    /\ outcome' = [outcome EXCEPT ![t] = NoOutcome]
    /\ UNCHANGED <<confidence, process_failures, collaborate_failures>>

\* collaborate(): update_state, then other_agent.process(context) up to the
\* first await of one of its internal stages
CallCollaborate(t, a, peer) ==
    /\ UNCHANGED <<memory, context, knowledge_base>>
    /\ StoresStill
    /\ stack[t] = <<>>
    /\ WithinPair(InPlay \cup {a, peer})
    /\ current_task' = [[current_task EXCEPT ![a] = CollaborateTask(a, peer)]
                           EXCEPT ![peer] = ProcessTask(peer)]
    /\ stack' = [stack EXCEPT ![t] = <<Frame("collaborate", a, peer),
                                       Frame("process", peer, "-")>>]
    /\ outcome' = [outcome EXCEPT ![t] = NoOutcome]
    /\ UNCHANGED <<confidence, process_failures, collaborate_failures>>

\* process(): the stages succeed and the result is returned, to the caller
\* of process() or into the try block of collaborate()
ProcessReturns(t) ==
    /\ UNCHANGED <<memory, context, knowledge_base>>
    /\ stack[t] # <<>>
    /\ StoresOnReturn(t, stack[t][Len(stack[t])].agent)
    /\ LET top == stack[t][Len(stack[t])] IN
       /\ top.fn = "process"
       /\ ReadsKnowledgeBase(top.agent) => knowledge_base[top.agent] # "None"
       /\ stack' = [stack EXCEPT ![t] = SubSeq(@, 1, Len(@) - 1)]
       /\ UNCHANGED <<current_task, confidence, process_failures, collaborate_failures>>
       /\ outcome' = IF Len(stack[t]) = 1
                     THEN [outcome EXCEPT ![t] = Outcome("process", top.agent, "-", "returned", <<>>)]
                     ELSE outcome

\* ProcessRaises with the factor of process() applied twice
ProcessRaises_PenaltyTwice(t) ==
    /\ UNCHANGED <<memory, context, knowledge_base>>
    /\ stack[t] # <<>>
    /\ StoresOnRaise(t, stack[t][Len(stack[t])].agent)
    /\ LET top == stack[t][Len(stack[t])]
           nested == Len(stack[t]) = 2
           caller == stack[t][1].agent
           own == [confidence EXCEPT
                     ![top.agent] = Times(Times(@, ProcessPenalty), ProcessPenalty)]
       IN
       /\ top.fn = "process"
       /\ Failures + (IF nested THEN 2 ELSE 1) <= MaxFailures
       /\ process_failures' = [process_failures EXCEPT ![top.agent] = @ + 1]
       /\ collaborate_failures' =
            IF nested THEN [collaborate_failures EXCEPT ![caller] = @ + 1]
            ELSE collaborate_failures
       /\ confidence' =
            IF nested THEN [own EXCEPT ![caller] = Times(@, CollaboratePenalty)]
            ELSE own
       /\ stack' = [stack EXCEPT ![t] = <<>>]
       /\ UNCHANGED current_task
       /\ outcome' =
            IF nested
            THEN [outcome EXCEPT ![t] =
                    Outcome("collaborate", caller, top.agent, "raised",
                            CollaborateFailure(caller) \o ProcessFailure(top.agent)
                              \o StageError)]
            ELSE [outcome EXCEPT ![t] =
                    Outcome("process", top.agent, "-", "raised",
                            ProcessFailure(top.agent) \o StageError)]

\* ProcessRaises whose except clause writes 0.8 times the confidence the
\* agent was constructed with, not 0.8 times its current confidence: the
\* update of a call that failed in between is lost
ProcessRaises_StaleRead(t) ==
    /\ UNCHANGED <<memory, context, knowledge_base>>
    /\ stack[t] # <<>>
    /\ StoresOnRaise(t, stack[t][Len(stack[t])].agent)
    /\ LET top == stack[t][Len(stack[t])]
           nested == Len(stack[t]) = 2
           caller == stack[t][1].agent
           own == [confidence EXCEPT ![top.agent] = Times(One, ProcessPenalty)]
       IN
       /\ top.fn = "process"
       /\ Failures + (IF nested THEN 2 ELSE 1) <= MaxFailures
       /\ process_failures' = [process_failures EXCEPT ![top.agent] = @ + 1]
       /\ collaborate_failures' =
            IF nested THEN [collaborate_failures EXCEPT ![caller] = @ + 1]
            ELSE collaborate_failures
       /\ confidence' =
            IF nested THEN [own EXCEPT ![caller] = Times(@, CollaboratePenalty)]
            ELSE own
       /\ stack' = [stack EXCEPT ![t] = <<>>]
       /\ UNCHANGED current_task
       /\ outcome' =
            IF nested
            THEN [outcome EXCEPT ![t] =
                    Outcome("collaborate", caller, top.agent, "raised",
                            CollaborateFailure(caller) \o ProcessFailure(top.agent)
                              \o StageError)]
            ELSE [outcome EXCEPT ![t] =
                    Outcome("process", top.agent, "-", "raised",
                            ProcessFailure(top.agent) \o StageError)]

\* ProcessRaises without the except clause of collaborate(): the caller keeps
\* its confidence
ProcessRaises_PeerOnly(t) ==
    /\ UNCHANGED <<memory, context, knowledge_base>>
    /\ stack[t] # <<>>
    /\ StoresOnRaise(t, stack[t][Len(stack[t])].agent)
    /\ LET top == stack[t][Len(stack[t])]
           nested == Len(stack[t]) = 2
           caller == stack[t][1].agent
           own == [confidence EXCEPT ![top.agent] = Times(@, ProcessPenalty)]
       IN
       /\ top.fn = "process"
       /\ Failures + (IF nested THEN 2 ELSE 1) <= MaxFailures
       /\ process_failures' = [process_failures EXCEPT ![top.agent] = @ + 1]
       /\ collaborate_failures' =
            IF nested THEN [collaborate_failures EXCEPT ![caller] = @ + 1]
            ELSE collaborate_failures
       /\ confidence' = own
       /\ stack' = [stack EXCEPT ![t] = <<>>]
       /\ UNCHANGED current_task
       /\ outcome' =
            IF nested
            THEN [outcome EXCEPT ![t] =
                    Outcome("collaborate", caller, top.agent, "raised",
                            CollaborateFailure(caller) \o ProcessFailure(top.agent)
                              \o StageError)]
            ELSE [outcome EXCEPT ![t] =
                    Outcome("process", top.agent, "-", "raised",
                            ProcessFailure(top.agent) \o StageError)]

\* process(): a stage raises; the except clause of process() and, inside
\* collaborate(), the except clause of collaborate() run
ProcessRaises(t) ==
    /\ UNCHANGED <<memory, context, knowledge_base>>
    /\ stack[t] # <<>>
    /\ StoresOnRaise(t, stack[t][Len(stack[t])].agent)
    /\ LET top == stack[t][Len(stack[t])]
           nested == Len(stack[t]) = 2
           caller == stack[t][1].agent
           own == [confidence EXCEPT ![top.agent] = Times(@, ProcessPenalty)]
       IN
       /\ top.fn = "process"
       /\ Failures + (IF nested THEN 2 ELSE 1) <= MaxFailures
       /\ process_failures' = [process_failures EXCEPT ![top.agent] = @ + 1]
       /\ collaborate_failures' =
            IF nested THEN [collaborate_failures EXCEPT ![caller] = @ + 1]
            ELSE collaborate_failures
       /\ confidence' =
            IF nested THEN [own EXCEPT ![caller] = Times(@, CollaboratePenalty)]
            ELSE own
       /\ stack' = [stack EXCEPT ![t] = <<>>]
       /\ UNCHANGED current_task
       /\ outcome' =
            IF nested
            THEN [outcome EXCEPT ![t] =
                    Outcome("collaborate", caller, top.agent, "raised",
                            CollaborateFailure(caller) \o ProcessFailure(top.agent)
                              \o StageError)]
            ELSE [outcome EXCEPT ![t] =
                    Outcome("process", top.agent, "-", "raised",
                            ProcessFailure(top.agent) \o StageError)]

\* collaborate(): the stages after the peer's result succeed
CollaborateReturns(t) ==
    /\ UNCHANGED <<memory, context, knowledge_base>>
    /\ StoresStill
    /\ Len(stack[t]) = 1
    /\ stack[t][1].fn = "collaborate"
    /\ stack' = [stack EXCEPT ![t] = <<>>]
    /\ UNCHANGED <<current_task, confidence, process_failures, collaborate_failures>>
    /\ outcome' = [outcome EXCEPT ![t] =
                     Outcome("collaborate", stack[t][1].agent, stack[t][1].peer,
                             "returned", <<>>)]

\* CollaborateRaises with the factor of process() in place of collaborate()'s
CollaborateRaises_ProcessPenalty(t) ==
    /\ UNCHANGED <<memory, context, knowledge_base>>
    /\ StoresStill
    /\ Len(stack[t]) = 1
    /\ stack[t][1].fn = "collaborate"
    /\ Failures + 1 <= MaxFailures
    /\ LET a == stack[t][1].agent IN
       /\ confidence' = [confidence EXCEPT ![a] = Times(@, ProcessPenalty)]
       /\ collaborate_failures' = [collaborate_failures EXCEPT ![a] = @ + 1]
       /\ stack' = [stack EXCEPT ![t] = <<>>]
       /\ UNCHANGED <<current_task, process_failures>>
       /\ outcome' = [outcome EXCEPT ![t] =
                        Outcome("collaborate", a, stack[t][1].peer, "raised",
                                CollaborateFailure(a) \o StageError)]

\* collaborate(): a stage after the peer's result raises
CollaborateRaises(t) ==
    /\ UNCHANGED <<memory, context, knowledge_base>>
    /\ StoresStill
    /\ Len(stack[t]) = 1
    /\ stack[t][1].fn = "collaborate"
    /\ Failures + 1 <= MaxFailures
    /\ LET a == stack[t][1].agent IN
       /\ confidence' = [confidence EXCEPT ![a] = Times(@, CollaboratePenalty)]
       /\ collaborate_failures' = [collaborate_failures EXCEPT ![a] = @ + 1]
       /\ stack' = [stack EXCEPT ![t] = <<>>]
       /\ UNCHANGED <<current_task, process_failures>>
       /\ outcome' = [outcome EXCEPT ![t] =
                        Outcome("collaborate", a, stack[t][1].peer, "raised",
                                CollaborateFailure(a) \o StageError)]

\* mutant: reflect() that clears the task label it has reported
Reflect_ClearsTask(t, a) ==
    /\ UNCHANGED <<memory, context, knowledge_base>>
    /\ StoresStill
    /\ stack[t] = <<>>
    /\ WithinPair(InPlay \cup {a})
    /\ current_task' = [current_task EXCEPT ![a] = NoTask]
    /\ UNCHANGED <<confidence, stack, process_failures, collaborate_failures>>
    /\ outcome' = [outcome EXCEPT ![t] =
                     [Outcome("reflect", a, "-", "returned", <<>>)
                        EXCEPT !.task = current_task[a]]]

\* BaseAgent.reflect
Reflect(t, a) ==
    /\ UNCHANGED <<memory, context, knowledge_base>>
    /\ StoresStill
    /\ stack[t] = <<>>
    /\ WithinPair(InPlay \cup {a})
    /\ UNCHANGED <<current_task, confidence, stack, process_failures, collaborate_failures>>
    /\ outcome' = [outcome EXCEPT ![t] = Outcome("reflect", a, "-", "returned", <<>>)]

Init ==
    /\ InitNodes
    /\ participating_agents = [n \in Instances |-> NoBinding]
    /\ steps = 0
    /\ handled = [n \in Instances |-> 0]
    /\ pending = NoPending
    /\ before = [t \in Tasks |-> NoBefore]
    /\ run = [n \in Instances |-> NotRun]
    /\ InitAgents

(***************************************************************************)
(* Spec: every node operation on every node, in any order, at most         *)
(* MaxSteps calls.                                                         *)
(***************************************************************************)
\* the agents handed to connect_agent
GraphAgents == {"researcher", "challenger", "creative"}

Tick ==
    /\ steps < MaxSteps
    /\ steps' = steps + 1
    /\ UNCHANGED <<handled, pending, before, run, agentVars>>

Next ==
    \/ \E n \in Nodes, a \in GraphAgents : ConnectAgent(n, a) /\ Tick
    \/ \E n \in Nodes, m \in Nodes : AddNextNode(n, m) /\ Tick
    \/ \E n \in Nodes : ValidateReadiness(n) /\ Tick
    \/ \E n \in Nodes : Start(n) /\ Tick
    \/ \E n \in Nodes, d \in CallerDicts : Complete(n, d) /\ Tick
    \/ \E n \in Nodes : CompleteFresh(n) /\ Tick
    \/ \E n \in Nodes, e \in Errs : HandleError(n, e) /\ Tick

Spec == Init /\ [][Next]_vars

(***************************************************************************)
(* SpecLife: one node per behaviour under start / complete / handle_error, *)
(* without a limit on the number of calls.                                 *)
(***************************************************************************)
Untouched(m) == ~active[m] /\ ~completed[m] /\ errors[m] = <<>>

Alone(n) == \A m \in Nodes \ {n} : Untouched(m)

NextLife ==
    \/ \E n \in Nodes :
         /\ Alone(n) /\ Start(n)
         /\ handled' = [handled EXCEPT ![n] = 0]
         /\ UNCHANGED <<steps, pending, before, run, agentVars>>
    \/ \E n \in Nodes, d \in CallerDicts :
         Alone(n) /\ Complete(n, d) /\ UNCHANGED <<driverVars, agentVars>>
    \/ \E n \in Nodes :
         Alone(n) /\ CompleteFresh(n) /\ UNCHANGED <<driverVars, agentVars>>
    \/ \E n \in Nodes, e \in Errs :
         /\ Alone(n) /\ HandleError(n, e)
         /\ handled' = [handled EXCEPT ![n] = @ + 1]
         /\ UNCHANGED <<steps, pending, before, run, agentVars>>

SpecLife == Init /\ [][NextLife]_vars

(***************************************************************************)
(* SpecGraph: edges, bindings, readiness and completion on the three       *)
(* nodes, without a limit on the number of calls.                          *)
(***************************************************************************)
Still == UNCHANGED <<driverVars, agentVars>>

NextGraph ==
    \/ \E n \in Nodes, a \in GraphAgents : ConnectAgent(n, a) /\ Still
    \/ \E n \in Nodes, m \in Nodes : AddNextNode(n, m) /\ Still
    \/ \E n \in Nodes : ValidateReadiness(n) /\ Still
    \/ \E n \in Nodes : CompleteFresh(n) /\ Still

SpecGraph == Init /\ [][NextGraph]_vars

(***************************************************************************)
(* SpecOrder: a driver that builds the graph, then starts, completes and   *)
(* checks nodes in any order, and begins a node's process only on a        *)
(* validate_readiness() call of that node that returned True.              *)
(***************************************************************************)
\* the bindings left by connect_agent calls with every agent
BoundByAll(n) ==
    LET keys == {Lower(PersonalityName(a)) : a \in Agents} \cap RequiredAgents(n) IN
    [k \in keys |-> CHOOSE a \in Agents : Lower(PersonalityName(a)) = k]

InitOrder ==
    /\ InitNodes
    /\ participating_agents = [n \in Instances |-> IF n \in Nodes THEN BoundByAll(n) ELSE NoBinding]
    /\ steps = 0
    /\ handled = [n \in Instances |-> 0]
    /\ pending = NoPending
    /\ before = [t \in Tasks |-> NoBefore]
    /\ run = [n \in Instances |-> NotRun]
    /\ InitAgents

\* nothing but add_next_node has been called
Building == ret.op \in {"init", "add_next_node"}

\* the driver calls validate_readiness and keeps what the call established
CheckReadiness(n) ==
    /\ ValidateReadiness(n)
    /\ pending' = IF ReadinessOutcome(n).out = "True"
                  THEN [node |-> n,
                        previous |-> Range(previous_nodes[n]),
                        seen |-> {p \in Range(previous_nodes[n]) : completed[p]},
                        restarted |-> {}]
                  ELSE NoPending

\* the driver invokes the node's process (abstract in BaseWorkflowNode)
BeginProcess(n) ==
    /\ pending.node = n
    /\ ret' = Returned("process", n, "begin")
    /\ pending' = [pending EXCEPT !.node = "-"]
    /\ UNCHANGED <<active, completed, iteration, results, errors, next_nodes,
                   previous_nodes, participating_agents, heap>>

NextOrder ==
    \/ \E n \in Nodes, m \in Nodes : Building /\ AddNextNode(n, m) /\ Still
    \/ \E n \in Nodes :
         /\ Start(n)
         /\ pending' = IF pending.node = "-" THEN pending
                       ELSE [pending EXCEPT !.restarted = @ \cup {n}]
         /\ UNCHANGED <<steps, handled, before, run, agentVars>>
    \/ \E n \in Nodes : CompleteFresh(n) /\ Still
    \/ \E n \in Nodes : CheckReadiness(n) /\ UNCHANGED <<steps, handled, before, run, agentVars>>
    \/ \E n \in Nodes : BeginProcess(n) /\ UNCHANGED <<steps, handled, before, run, agentVars>>

SpecOrder == InitOrder /\ [][NextOrder]_vars

(***************************************************************************)
(* SpecAgent: one task calls process, collaborate and reflect on the       *)
(* agents, one call after the other.                                       *)
(***************************************************************************)
NodesStill == UNCHANGED <<nodeVars, driverVars>>

NextAgent ==
    \/ \E a \in Agents : CallProcess("t1", a) /\ NodesStill
    \/ \E a \in Agents, peer \in Agents : CallCollaborate("t1", a, peer) /\ NodesStill
    \/ ProcessReturns("t1") /\ NodesStill
    \/ ProcessRaises("t1") /\ NodesStill
    \/ CollaborateReturns("t1") /\ NodesStill
    \/ CollaborateRaises("t1") /\ NodesStill
    \/ \E a \in Agents : Reflect("t1", a) /\ NodesStill
    \/ \E a \in Agents : AttachKnowledgeBase(a) /\ NodesStill

SpecAgent == Init /\ [][NextAgent]_vars

(***************************************************************************)
(* SpecFrame: SpecAgent's calls of process and collaborate, with the       *)
(* AgentState of the called agent recorded when a call begins.             *)
(***************************************************************************)
\* AgentState of an agent
Snapshot(a) ==
    [agent |-> a, task |-> current_task[a], confidence |-> confidence[a],
     memory |-> memory[a], context |-> context[a]]

Recorded(a) ==
    /\ before' = [before EXCEPT !["t1"] = Snapshot(a)]
    /\ UNCHANGED <<nodeVars, steps, handled, pending, run>>

NextFrame ==
    \/ \E a \in Agents : CallProcess("t1", a) /\ Recorded(a)
    \/ \E a \in Agents, peer \in Agents : CallCollaborate("t1", a, peer) /\ Recorded(a)
    \/ ProcessReturns("t1") /\ NodesStill
    \/ ProcessRaises("t1") /\ NodesStill
    \/ CollaborateReturns("t1") /\ NodesStill
    \/ CollaborateRaises("t1") /\ NodesStill
    \/ \E a \in Agents : AttachKnowledgeBase(a) /\ NodesStill

SpecFrame == Init /\ [][NextFrame]_vars

(***************************************************************************)
(* SpecTasks: two tasks of one event loop, each one call of process or     *)
(* collaborate. A task runs until its call awaits something outside the    *)
(* agents, which only the Strategist's process() does                      *)
(* (knowledge_base.query); no lock guards an agent.                        *)
(***************************************************************************)
\* the agents whose process() awaits the knowledge base in its first stage
Suspends(a) == ReadsKnowledgeBase(a) /\ knowledge_base[a] # "None"

\* the event loop may run task t: no other task is inside a call, unless
\* that call is suspended in knowledge_base.query
CanRun(t) ==
    \A u \in Tasks \ {t} :
        IF stack[u] = <<>> THEN TRUE
        ELSE LET top == stack[u][Len(stack[u])] IN
             top.fn = "process" /\ Suspends(top.agent)

\* a task is one coroutine, process(...) or collaborate(...), handed to the
\* event loop: it has not made its call yet
Fresh(t) == stack[t] = <<>> /\ outcome[t] = NoOutcome

NextTasks ==
    \/ \E t \in Tasks, a \in Agents :
         Fresh(t) /\ CanRun(t) /\ CallProcess(t, a) /\ NodesStill
    \/ \E t \in Tasks, a \in Agents, peer \in Agents :
         Fresh(t) /\ CanRun(t) /\ CallCollaborate(t, a, peer) /\ NodesStill
    \/ \E t \in Tasks : CanRun(t) /\ ProcessReturns(t) /\ NodesStill
    \/ \E t \in Tasks : CanRun(t) /\ ProcessRaises(t) /\ NodesStill
    \/ \E t \in Tasks : CanRun(t) /\ CollaborateReturns(t) /\ NodesStill
    \/ \E t \in Tasks : CanRun(t) /\ CollaborateRaises(t) /\ NodesStill
    \/ \E a \in Agents : AttachKnowledgeBase(a) /\ NodesStill

SpecTasks == Init /\ [][NextTasks]_vars

(***************************************************************************)
(* SpecRun: the orchestrator's protocol on the pipeline P -> Q and on R:   *)
(* start, validate_readiness, process, then complete, or handle_error and  *)
(* process again. A node's process is its bound agent's process; one       *)
(* attempt runs at a time.                                                 *)
(***************************************************************************)
\* the graph and the bindings that add_next_node and connect_agent have built
InitRun ==
    /\ active = [n \in Instances |-> FALSE]
    /\ completed = [n \in Instances |-> FALSE]
    /\ iteration = [n \in Instances |-> 0]
    /\ results = [n \in Instances |-> OwnDict(n)]
    /\ errors = [n \in Instances |-> <<>>]
    /\ next_nodes = [n \in Instances |-> IF n = "P" THEN <<"Q">> ELSE <<>>]
    /\ previous_nodes = [n \in Instances |-> IF n = "Q" THEN <<"P">> ELSE <<>>]
    /\ heap = [d \in DictIds |-> IF d \in CallerDicts THEN CallerKeys(d) ELSE NoKeys]
    /\ ret = [Returned("add_next_node", "P", "None") EXCEPT !.info = {"Q"}]
    /\ participating_agents =
         [n \in Instances |-> IF n \in Pipeline THEN BoundByAll(n) ELSE NoBinding]
    /\ steps = 0
    /\ handled = [n \in Instances |-> 0]
    /\ pending = NoPending
    /\ before = [t \in Tasks |-> NoBefore]
    /\ run = [n \in Instances |-> NotRun]
    /\ InitAgents

\* the agent that a pipeline node has bound
NodeAgent(n) ==
    participating_agents[n][CHOOSE k \in DOMAIN participating_agents[n] : TRUE]

\* the run goes on: no node has raised out of handle_error or validate_readiness
Running == \A n \in Pipeline : run[n].pc \notin {"fatal", "aborted"}

RunStart(n) ==
    /\ Running /\ run[n].pc = "idle"
    /\ Start(n)
    /\ run' = [run EXCEPT ![n].pc = "started"]
    /\ handled' = [handled EXCEPT ![n] = 0]
    /\ UNCHANGED <<steps, pending, before, agentVars>>

RunCheck(n) ==
    /\ Running /\ run[n].pc = "started"
    /\ ValidateReadiness(n)
    /\ run' = [run EXCEPT ![n].pc =
                 CASE ReadinessOutcome(n).out = "True"  -> "ready"
                   [] ReadinessOutcome(n).out = "False" -> "started"
                   [] OTHER                             -> "aborted"]
    /\ UNCHANGED <<steps, handled, pending, before, agentVars>>

RunAttempt(n) ==
    /\ Running /\ run[n].pc = "ready"
    /\ \A m \in Pipeline : run[m].pc # "processing"
    /\ CallProcess("t1", NodeAgent(n))
    /\ run' = [run EXCEPT ![n] = [pc |-> "processing", attempts |-> @.attempts + 1]]
    /\ UNCHANGED <<nodeVars, steps, handled, pending, before>>

RunComplete(n) ==
    /\ Running /\ run[n].pc = "processing"
    /\ stack["t1"] = <<>> /\ outcome["t1"].kind = "returned"
    /\ CompleteFresh(n)
    /\ run' = [run EXCEPT ![n].pc = "done"]
    /\ UNCHANGED <<steps, handled, pending, before, agentVars>>

RunHandleError(n) ==
    /\ Running /\ run[n].pc = "processing"
    /\ stack["t1"] = <<>> /\ outcome["t1"].kind = "raised"
    /\ HandleError(n, "e1")
    /\ run' = [run EXCEPT ![n].pc =
                 IF ret'.out = "RuntimeError" THEN "fatal" ELSE "ready"]
    /\ handled' = [handled EXCEPT ![n] = @ + 1]
    /\ UNCHANGED <<steps, pending, before, agentVars>>

NextRun ==
    \/ \E n \in Pipeline : RunStart(n)
    \/ \E n \in Pipeline : RunCheck(n)
    \/ \E n \in Pipeline : RunAttempt(n)
    \/ ProcessReturns("t1") /\ NodesStill
    \/ ProcessRaises("t1") /\ NodesStill
    \/ \E n \in Pipeline : RunComplete(n)
    \/ \E n \in Pipeline : RunHandleError(n)

SpecRun == InitRun /\ [][NextRun]_vars

(***************************************************************************)
(* Node claims.                                                            *)
(***************************************************************************)
\* C1: counting the handle_error calls on a node since its latest start(),
\* every call before the max_iterations-th returns normally, and the
\* max_iterations-th raises RuntimeError with the failing error already
\* appended, so that the error list then holds max_iterations entries.
C1_MthHandleErrorRaises ==
    ret.op = "handle_error" =>
        LET n == ret.node IN
        /\ handled[n] < MaxIterations(n) => ret.out = "None"
        /\ handled[n] = MaxIterations(n) =>
              ret.out = "RuntimeError" /\ Len(errors[n]) = MaxIterations(n)

\* C1 witness: the third call on the node with max_iterations = 3 has raised
C1_Witness ==
    /\ ret = Raised("handle_error", "C", "RuntimeError", {})
    /\ handled["C"] = 3
    /\ MaxIterations("C") = 3

\* C2: with all required agents bound, validate_readiness returns False when
\* some predecessor is not completed and True when all are (none included).
C2_ReadinessIsConjunction ==
    (ret.op = "validate_readiness"
       /\ RequiredAgents(ret.node) \subseteq DOMAIN participating_agents[ret.node]) =>
        /\ (\E p \in Range(previous_nodes[ret.node]) : ~completed[p]) => ret.out = "False"
        /\ (\A p \in Range(previous_nodes[ret.node]) : completed[p]) => ret.out = "True"

\* C2 witness: a bound node with a completed and an uncompleted predecessor
\* has been found not ready
C2_Witness ==
    /\ ret = Returned("validate_readiness", "B", "False")
    /\ Range(previous_nodes["B"]) = {"A", "C"}
    /\ completed["A"] /\ ~completed["C"]

\* C3: validate_readiness raises ValueError exactly when some required agent
\* is not bound, whatever the predecessors' state, and the error names exactly
\* the required names that are not bound.
C3_MissingAgentsFirst ==
    ret.op = "validate_readiness" =>
        LET unbound == RequiredAgents(ret.node) \ DOMAIN participating_agents[ret.node] IN
        /\ ret.out = "ValueError" <=> unbound # {}
        /\ ret.out = "ValueError" => ret.info = unbound

\* C3 witness: a half-bound node with an uncompleted predecessor has raised,
\* naming the one agent that is missing
C3_Witness ==
    /\ ret = Raised("validate_readiness", "B", "ValueError", {"challenger"})
    /\ DOMAIN participating_agents["B"] = {"researcher"}
    /\ \E p \in Range(previous_nodes["B"]) : ~completed[p]

\* C4: in every reachable node state, completed implies not active.
C4_CompletedNotActive == \A n \in Nodes : completed[n] => ~active[n]

\* C4 witness: a node that was started and took an error has been completed
C4_Witness ==
    /\ ret.op = "complete"
    /\ completed[ret.node]
    /\ errors[ret.node] # <<>>

\* C5: after start(), whatever the state before, the node is active, not
\* completed, at iteration 0, with an empty results map and no errors.
C5_StartResets ==
    ret.op = "start" =>
        LET n == ret.node IN
        /\ active[n] /\ ~completed[n]
        /\ iteration[n] = 0
        /\ heap[results[n]] = NoKeys
        /\ errors[n] = <<>>

\* C5 witness: start() on a node that had been completed with the caller's
\* dict r1, which start() has emptied
C5_Witness ==
    /\ ret = Returned("start", "B", "None")
    /\ results["B"] = "r1"
    /\ heap["r1"] = NoKeys

\* C10 as stated: when the process of a node begins, every predecessor has
\* been seen completed by the readiness check it relies on, and is completed
\* at that moment.
C10_PredecessorsCompletedAtProcess ==
    ret.op = "process" =>
        \A p \in Range(previous_nodes[ret.node]) :
            p \in pending.seen /\ completed[p]

\* C10 amended: when the process of a node begins, every predecessor was
\* completed when the readiness check returned True (so a complete() on it
\* came first), and it is still completed unless start() was called on it
\* after that check.
C10_PredecessorsCompletedAtCheck ==
    ret.op = "process" =>
        \A p \in Range(previous_nodes[ret.node]) :
            /\ p \in pending.seen
            /\ p \notin pending.restarted => completed[p]

\* C10 witness: the process of a node with two predecessors has begun
C10_Witness ==
    /\ ret = Returned("process", "C", "begin")
    /\ Range(previous_nodes["C"]) = {"A", "B"}
    /\ pending.seen = {"A", "B"}
    /\ completed["A"] /\ completed["B"]

\* C12 as stated: a node whose error list holds max_iterations entries or
\* more is in a fatal state: neither active nor completed.
C12_ExhaustedNodeIsFatal ==
    \A n \in Nodes :
        Len(errors[n]) >= MaxIterations(n) => ~active[n] /\ ~completed[n]

\* C13: the edge lists mirror each other, m occurring in n.next_nodes as
\* often as n in m.previous_nodes; a call n.add_next_node(m) adds one
\* occurrence of m to n.next_nodes and changes no other count, and no other
\* call changes any, so that m is in n.next_nodes iff the call was made.
C13_EdgesMirrorCalls ==
    [][LET Count(x, seq) == Cardinality({i \in DOMAIN seq : seq[i] = x}) IN
       \A n \in Nodes, m \in Nodes :
          /\ Count(m, next_nodes[n]) = Count(n, previous_nodes[m])
          /\ Count(m, next_nodes'[n]) = Count(n, previous_nodes'[m])
          /\ Count(m, next_nodes'[n]) =
                Count(m, next_nodes[n])
                  + (IF ret'.op = "add_next_node" /\ ret'.node = n /\ ret'.info = {m}
                     THEN 1 ELSE 0)
      ]_vars

\* C13 witness: after A.add_next_node(B) and C.add_next_node(B), B has the
\* predecessors A and C in the order of the calls
C13_Witness ==
    /\ ret.op = "add_next_node" /\ ret.node = "C" /\ ret.info = {"B"}
    /\ next_nodes["A"] = <<"B">>
    /\ next_nodes["C"] = <<"B">>
    /\ previous_nodes["B"] = <<"A", "C">>

\* C14 as stated: however often add_next_node is called, no node occurs
\* twice in a next_nodes list or in a previous_nodes list.
C14_EdgeInsertedOnce ==
    \A n \in Nodes :
        /\ \A i, j \in DOMAIN next_nodes[n] :
              next_nodes[n][i] = next_nodes[n][j] => i = j
        /\ \A i, j \in DOMAIN previous_nodes[n] :
              previous_nodes[n][i] = previous_nodes[n][j] => i = j

\* C15: complete(results), in whatever state the node is (completed already
\* included), leaves the node completed and not active with results the
\* given dict, and changes neither iteration, nor the error list, nor the
\* contents of a dict the caller handed over.
C15_CompleteSetsFlagsAndResults ==
    [][ret'.op = "complete" =>
         LET n == ret'.node IN
         /\ completed'[n] /\ ~active'[n]
         /\ ret'.info = {results'[n]}
         /\ iteration' = iteration
         /\ errors' = errors
         /\ \A d \in CallerDicts : heap'[d] = heap[d]
         /\ \A m \in Nodes \ {n} :
              /\ completed'[m] = completed[m] /\ active'[m] = active[m]
              /\ results'[m] = results[m]
      ]_vars

\* C15 witness: a started node that took an error has been completed with
\* the caller's dict r2, the error list kept
C15_Witness ==
    /\ ret.op = "complete" /\ ret.node = "B" /\ ret.info = {"r2"}
    /\ results["B"] = "r2"
    /\ heap["r2"] = CallerKeys("r2")
    /\ completed["B"] /\ ~active["B"]
    /\ Len(errors["B"]) = 1

(***************************************************************************)
(* Agent claims.                                                           *)
(***************************************************************************)
\* C6: an agent's confidence is 0.8 to the number of its failed process()
\* calls times 0.9 to the number of its failed collaborate() calls: 0.8^N
\* after N failed process() calls alone, 0.9^N after N failed collaborate()
\* calls alone, each failed call applying its factor exactly once.
C6_ConfidenceIsPowerOfFailures ==
    \A a \in Agents :
        Same(confidence[a],
             Times(Power(ProcessPenalty, process_failures[a]),
                   Power(CollaboratePenalty, collaborate_failures[a])))

\* C6 witness: the Strategist has failed process() twice (0.64), and the
\* Analyst's collaborate() has then failed in its own merge phase, after the
\* Strategist's process() succeeded (0.9)
C6_Witness ==
    /\ process_failures["strategist"] = 2
    /\ collaborate_failures["strategist"] = 0
    /\ Same(confidence["strategist"], <<64, 100>>)
    /\ outcome["t1"].fn = "collaborate"
    /\ outcome["t1"].agent = "analyst"
    /\ outcome["t1"].peer = "strategist"
    /\ outcome["t1"].error = CollaborateFailure("analyst") \o StageError
    /\ process_failures["analyst"] = 0
    /\ collaborate_failures["analyst"] = 1
    /\ Same(confidence["analyst"], <<9, 10>>)

\* C7: in every step no confidence increases; a confidence changes only in
\* the step in which a call fails, by 0.8 for the agent whose process()
\* failed and by 0.9 for the agent whose collaborate() failed; the step in
\* which a call returns leaves every confidence as it was.
C7_ConfidenceOnlyDecays ==
    [][LET s == stack["t1"]
           ends == s # <<>> /\ stack'["t1"] = <<>>
           fails == ends /\ outcome'["t1"].kind = "raised"
           inProcess(a) == s[Len(s)].fn = "process" /\ s[Len(s)].agent = a
           inCollaborate(a) == s[1].fn = "collaborate" /\ s[1].agent = a
           factor(a) ==
               Times(IF inProcess(a) THEN ProcessPenalty ELSE One,
                     IF inCollaborate(a) THEN CollaboratePenalty ELSE One)
       IN
       /\ \A a \in Agents : AtMost(confidence'[a], confidence[a])
       /\ \A a \in Agents :
            ~Same(confidence'[a], confidence[a]) =>
                /\ fails
                /\ inProcess(a) \/ inCollaborate(a)
                /\ Same(confidence'[a], Times(confidence[a], factor(a)))
       /\ (s # <<>> /\ ~fails) => confidence' = confidence
      ]_vars

\* C7 witness: the Researcher's confidence has dropped by 0.8 and by 0.9, and
\* its latest process() has returned with the confidence still at 0.72
C7_Witness ==
    /\ outcome["t1"].fn = "process"
    /\ outcome["t1"].agent = "researcher"
    /\ outcome["t1"].kind = "returned"
    /\ Same(outcome["t1"].confidence, <<72, 100>>)
    /\ Same(confidence["researcher"], <<72, 100>>)

\* C8: when Y.process raises inside X.collaborate(Y, ctx), X and Y distinct
\* and both at confidence 1.0, then Y's confidence becomes 0.8, X's becomes
\* 0.9, and collaborate() ends by raising.
C8_PeerFailurePenalisesBoth ==
    [][LET s == stack["t1"]
           X == s[1].agent
           Y == s[2].agent
       IN
       (/\ Len(s) = 2
        /\ s = <<Frame("collaborate", X, Y), Frame("process", Y, "-")>>
        /\ X # Y
        /\ Same(confidence[X], One)
        /\ Same(confidence[Y], One)
        /\ process_failures'[Y] = process_failures[Y] + 1)
       =>
       /\ Same(confidence'[Y], <<8, 10>>)
       /\ Same(confidence'[X], <<9, 10>>)
       /\ stack'["t1"] = <<>>
       /\ outcome'["t1"].fn = "collaborate"
       /\ outcome'["t1"].agent = X
       /\ outcome'["t1"].kind = "raised"
      ]_vars

\* C8 witness: Analyst.collaborate(Synthesizer) has raised because the
\* Synthesizer's process() raised, both having been at 1.0
C8_Witness ==
    /\ outcome["t1"].fn = "collaborate"
    /\ outcome["t1"].agent = "analyst"
    /\ outcome["t1"].peer = "synthesizer"
    /\ outcome["t1"].kind = "raised"
    /\ process_failures["synthesizer"] = 1
    /\ collaborate_failures["analyst"] = 1
    /\ Failures = 2
    /\ Same(confidence["synthesizer"], <<8, 10>>)
    /\ Same(confidence["analyst"], <<9, 10>>)

\* C9: when X.collaborate(Y, ctx) has failed because Y.process raised, the
\* text of the error that X's caller gets contains Y's name.
C9_ErrorNamesPeer ==
    LET o == outcome["t1"]
        text == o.error
        name == NameWords(o.peer)
    IN
    (/\ o.fn = "collaborate"
     /\ o.kind = "raised"
     /\ text = CollaborateFailure(o.agent) \o ProcessFailure(o.peer) \o StageError)
    =>
    \E i \in 1..Len(text) :
        /\ i + Len(name) - 1 <= Len(text)
        /\ SubSeq(text, i, i + Len(name) - 1) = name

\* C16 as stated: when X.collaborate(Y, ctx) has returned or failed, X's
\* current_task contains Y's name, Y being X included.
C16_LabelNamesPeer ==
    LET o == outcome["t1"]
        label == current_task[o.agent]
        name == NameWords(o.peer)
    IN
    o.fn = "collaborate" =>
        \E i \in 1..Len(label) :
            /\ i + Len(name) - 1 <= Len(label)
            /\ SubSeq(label, i, i + Len(name) - 1) = name

\* C16 amended: when X.collaborate(Y, ctx) has returned or failed and Y is
\* not X, X's current_task is X's collaboration label, which ends with Y's
\* name; when Y is X, it is X's process label, which names no agent.
C16_LabelNamesOtherPeer ==
    LET o == outcome["t1"]
        label == current_task[o.agent]
        name == NameWords(o.peer)
    IN
    o.fn = "collaborate" =>
        /\ o.task = label
        /\ o.agent # o.peer =>
              /\ label = CollaborateTask(o.agent, o.peer)
              /\ SubSeq(label, Len(label) - Len(name) + 1, Len(label)) = name
        /\ o.agent = o.peer =>
              /\ label = ProcessTask(o.agent)
              /\ \A y \in Agents : \A i \in 1..Len(label) :
                    i + Len(NameWords(y)) - 1 <= Len(label) =>
                        SubSeq(label, i, i + Len(NameWords(y)) - 1) # NameWords(y)

\* C16 witness: Implementer.collaborate(Creative Thinker) has failed and the
\* Implementer's label ends with the two words of the peer's name
C16_Witness ==
    /\ outcome["t1"].fn = "collaborate"
    /\ outcome["t1"].agent = "implementer"
    /\ outcome["t1"].peer = "creative"
    /\ outcome["t1"].kind = "raised"
    /\ current_task["implementer"] =
          <<"implementation_collaboration_with_", "Creative", "Thinker">>

\* C18: reflect() returns (it never raises) the agent's current confidence
\* and current_task, and leaves current_task, confidence, memory and context
\* of every agent as they were.
C18_ReflectReadsOnly ==
    [][outcome'["t1"].fn = "reflect" =>
         LET a == outcome'["t1"].agent IN
         /\ outcome'["t1"].kind = "returned"
         /\ outcome'["t1"].confidence = confidence[a]
         /\ outcome'["t1"].task = current_task[a]
         /\ current_task' = current_task
         /\ confidence' = confidence
         /\ memory' = memory
         /\ context' = context
      ]_vars

\* C18 witness: reflect() on an agent whose process() has failed reports the
\* decayed confidence and the label that process() left
C18_Witness ==
    /\ outcome["t1"].fn = "reflect"
    /\ outcome["t1"].agent = "challenger"
    /\ Same(outcome["t1"].confidence, <<8, 10>>)
    /\ outcome["t1"].task = <<"critical_evaluation">>
    /\ current_task["challenger"] = <<"critical_evaluation">>
    /\ Same(confidence["challenger"], <<8, 10>>)

\* C17 as stated: when process() has failed, the failure has been raised and
\* the agent's state differs from what it was when the call began only in
\* confidence, multiplied by 0.8: current_task, memory and context are as
\* they were.
C17_FailureKeepsTaskLabel ==
    LET o == outcome["t1"]
        a == o.agent
    IN
    (o.fn = "process" /\ o.kind = "raised") =>
        /\ before["t1"].agent = a
        /\ Same(confidence[a], Times(before["t1"].confidence, ProcessPenalty))
        /\ current_task[a] = before["t1"].task
        /\ memory[a] = before["t1"].memory
        /\ context[a] = before["t1"].context

\* C17 amended: in the step in which a stage of process() fails, the call
\* ends by raising an error that carries the cause after the agent's prefix;
\* confidence is 0.8 times what it was when the call began, memory and
\* context are as they were, and current_task is the agent's process label,
\* which the call set when it began.
C17_FailureKeepsAllButLabel ==
    [][LET s == stack["t1"]
           a == s[1].agent
       IN
       (/\ Len(s) = 1
        /\ s[1].fn = "process"
        /\ process_failures'[a] = process_failures[a] + 1)
       =>
       /\ stack'["t1"] = <<>>
       /\ outcome'["t1"].fn = "process"
       /\ outcome'["t1"].agent = a
       /\ outcome'["t1"].kind = "raised"
       /\ outcome'["t1"].error = ProcessFailure(a) \o StageError
       /\ before["t1"].agent = a
       /\ Same(confidence'[a], Times(before["t1"].confidence, ProcessPenalty))
       /\ current_task'[a] = ProcessTask(a)
       /\ memory'[a] = before["t1"].memory
       /\ context'[a] = before["t1"].context
       /\ \A b \in Agents \ {a} :
            /\ confidence'[b] = confidence[b]
            /\ current_task'[b] = current_task[b]
      ]_vars

\* C17 witness: the Implementer's process() has failed after a collaborate()
\* of the Implementer: the label of that collaboration is replaced by the
\* process label
C17_Witness ==
    /\ outcome["t1"].fn = "process"
    /\ outcome["t1"].agent = "implementer"
    /\ outcome["t1"].kind = "raised"
    /\ before["t1"].agent = "implementer"
    /\ before["t1"].task = CollaborateTask("implementer", "creative")
    /\ current_task["implementer"] = <<"implementation_planning">>
    /\ Same(before["t1"].confidence, One)
    /\ Same(confidence["implementer"], <<8, 10>>)

\* C19: no agent is touched, as callee of process(), caller of collaborate()
\* or peer of collaborate(), by calls of two tasks that are in flight at the
\* same time.
C19_AgentAccessSerialized ==
    LET Touches(t, a) ==
            \E i \in DOMAIN stack[t] : stack[t][i].agent = a \/ stack[t][i].peer = a
    IN
    \A a \in Agents : ~(Touches("t1", a) /\ Touches("t2", a))

(***************************************************************************)
(* Claims about a run of the orchestrator's protocol.                      *)
(***************************************************************************)
\* C20: from one start(), a node with max_iterations M gets at most M
\* process attempts: complete() follows an attempt k <= M, or the M-th
\* handle_error raises RuntimeError and no further attempt is made; a
\* failure becomes fatal only when the budget is used up.
C20_AtMostMaxIterationsAttempts ==
    \A n \in Pipeline :
        /\ run[n].attempts <= MaxIterations(n)
        /\ handled[n] <= run[n].attempts
        /\ run[n].pc = "done" =>
              /\ completed[n]
              /\ handled[n] = run[n].attempts - 1
        /\ run[n].pc = "fatal" <=>
              /\ handled[n] = MaxIterations(n)
              /\ run[n].attempts = MaxIterations(n)
        /\ run[n].pc = "fatal" =>
              /\ ret = Raised("handle_error", n, "RuntimeError", {})
              /\ ~completed[n]

\* a node with budget 3 is fatal after three failed attempts, one with
\* budget 1 completes on its first
C20_Witness ==
    /\ run["P"] = [pc |-> "fatal", attempts |-> 3]
    /\ handled["P"] = 3
    /\ run["R"] = [pc |-> "done", attempts |-> 1]

\* C11: with max_iterations 3 on both nodes of P -> Q: when P's agent fails
\* twice and then succeeds, the two handle_error calls return without
\* RuntimeError, P completes on its third attempt and its agent's confidence
\* is 0.64; Q.validate_readiness returns False before P.complete and True
\* after it, and Q completes only after P.
C11_RetryThenPipeline ==
    [][/\ (Len(errors'["P"]) = Len(errors["P"]) + 1 /\ Len(errors'["P"]) <= 2) =>
              ret' = Returned("handle_error", "P", "None")
       /\ (completed'["P"] /\ ~completed["P"] /\ process_failures["analyst"] = 2) =>
              /\ run'["P"] = [pc |-> "done", attempts |-> 3]
              /\ handled'["P"] = 2
              /\ Same(confidence'["analyst"], <<64, 100>>)
              /\ \A n \in Pipeline : run'[n].pc # "fatal"
       /\ (ret' # ret /\ ret'.op = "validate_readiness" /\ ret'.node = "Q") =>
              ret'.out = IF completed["P"] THEN "True" ELSE "False"
       /\ (run'["Q"].pc = "ready" /\ run["Q"].pc # "ready" /\ run["Q"].attempts = 0) =>
              completed["P"]
       /\ (completed'["Q"] /\ ~completed["Q"]) =>
              /\ completed["P"]
              /\ process_failures["researcher"] = 0 =>
                     /\ run'["Q"] = [pc |-> "done", attempts |-> 1]
                     /\ \A n \in Pipeline : run'[n].pc # "fatal"
      ]_vars

\* P completed on its third attempt, then Q passed readiness and completed
C11_Witness ==
    /\ process_failures["analyst"] = 2
    /\ process_failures["researcher"] = 0
    /\ run["P"] = [pc |-> "done", attempts |-> 3]
    /\ Same(confidence["analyst"], <<64, 100>>)
    /\ run["Q"] = [pc |-> "done", attempts |-> 1]
    /\ completed["P"] /\ completed["Q"]

(***************************************************************************)
(* Claims about the shape of the graph and about readiness.                *)
(***************************************************************************)
\* C21 as stated: the edges built by add_next_node never form a cycle: no
\* node is among its own successors, direct (a self-edge) or transitive.
C21_GraphIsAcyclic ==
    LET Onward(S) == S \cup UNION {Range(next_nodes[x]) : x \in S}
        Descendants(n) == Onward(Onward(Range(next_nodes[n])))
    IN \A n \in Nodes : n \notin Descendants(n)

(***************************************************************************)
(* SpecState: SpecAgent's calls together with update_state called on an    *)
(* agent from outside, one key at a time.                                  *)
(***************************************************************************)
\* the fields of AgentState
StateKeys == {"current_task", "memory", "confidence", "context"}
\* attributes of an AgentState object that are not fields: the methods it
\* inherits from pydantic's BaseModel, of which copy is one
ModelAttributes == {"copy"}
\* the keys handed to update_state: two fields, a key that AgentState does
\* not have, and the name of one of its methods
UpdateKeys == {"current_task", "confidence", "mood", "copy"}

\* the values handed to update_state under each key
UpdateValues(key) ==
    CASE key = "confidence"   -> {<<3, 2>>, <<-1, 2>>}
      [] key = "current_task" -> {NoTask}
      [] OTHER                -> {FreshKeys}

\* setattr(self.state, key, value) where hasattr(self.state, key)
SetField(field, a, key, value, name) ==
    IF key = name /\ key \in StateKeys THEN [field EXCEPT ![a] = value] ELSE field

\* BaseAgent.update_state({key: value}): hasattr holds of the fields and of
\* the other attributes of the object; setattr assigns a field, and raises
\* ValueError (pydantic: object has no field) for an attribute that is none
UpdateState(t, a, key, value) ==
    /\ stack[t] = <<>>
    /\ WithinPair(InPlay \cup {a})
    /\ current_task' = SetField(current_task, a, key, value, "current_task")
    /\ confidence' = SetField(confidence, a, key, value, "confidence")
    /\ memory' = SetField(memory, a, key, value, "memory")
    /\ context' = SetField(context, a, key, value, "context")
    /\ outcome' = [outcome EXCEPT ![t] =
                     [(IF key \in ModelAttributes \ StateKeys
                       THEN Outcome("update_state", a, "-", "raised", <<"ValueError">>)
                       ELSE Outcome("update_state", a, "-", "returned", <<>>))
                      EXCEPT !.carries = {key}]]
    /\ UNCHANGED <<stack, process_failures, collaborate_failures, knowledge_base>>
    /\ StoresStill

\* update_state is BaseAgent's, the same for every agent: two of them are called
StateAgents == {"analyst", "creative"}

NextState ==
    \/ \E a \in StateAgents : CallProcess("t1", a) /\ NodesStill
    \/ \E a \in StateAgents, peer \in StateAgents :
         CallCollaborate("t1", a, peer) /\ NodesStill
    \/ ProcessReturns("t1") /\ NodesStill
    \/ ProcessRaises("t1") /\ NodesStill
    \/ CollaborateReturns("t1") /\ NodesStill
    \/ CollaborateRaises("t1") /\ NodesStill
    \/ \E a \in StateAgents : Reflect("t1", a) /\ NodesStill
    \/ \E a \in StateAgents, key \in UpdateKeys :
         \E value \in UpdateValues(key) : UpdateState("t1", a, key, value) /\ NodesStill

SpecState == Init /\ [][NextState]_vars

\* C22 as stated: every agent's confidence lies in [0, 1], whatever calls of
\* process, collaborate, reflect and update_state have been made.
C22_ConfidenceInUnitInterval ==
    \A a \in Agents :
        /\ AtMost(<<0, 1>>, confidence[a])
        /\ AtMost(confidence[a], One)

\* C23: a validate_readiness() call, whether it returns True, returns False
\* or raises for missing agents, changes nothing but what the caller gets
\* back: NodeState of every node, the dicts, the bindings, the edges and
\* every agent's state stay as they were; the error list does not grow.
C23_ReadinessCheckChangesNothing ==
    [][ret'.op = "validate_readiness" =>
         /\ UNCHANGED <<active, completed, iteration, results, errors, heap>>
         /\ UNCHANGED <<participating_agents, next_nodes, previous_nodes>>
         /\ UNCHANGED <<confidence, current_task, memory, context>>
         /\ ret'.out \in {"True", "False", "ValueError"}
      ]_vars

\* a started node that has used part of its retry budget has raised for a
\* missing agent, and its error list is what it was
C23_Witness ==
    /\ ret = Raised("validate_readiness", "B", "ValueError", {"researcher", "challenger"})
    /\ active["B"]
    /\ Len(errors["B"]) = 1
    /\ Len(errors["B"]) < MaxIterations("B")

(***************************************************************************)
(* Claims about what the agents' calls return.                             *)
(***************************************************************************)
\* C24 as stated: the dict that a successful process() returns holds the
\* agent's confidence, and the dict that a successful collaborate() returns
\* holds the caller's confidence and collaboration metadata with the peer's
\* name and a timestamp, whichever of the seven agents is called.
C24_ResultsCarryConfidence ==
    LET o == outcome["t1"]
        HasConfidence == o.carries \cap {"confidence", "confidence_score"} # {}
    IN o.kind = "returned" =>
         /\ o.fn = "process" => HasConfidence
         /\ o.fn = "collaborate" =>
               /\ HasConfidence
               /\ "collaboration_metadata.partner" \in o.carries
               /\ "collaboration_metadata.timestamp" \in o.carries

(***************************************************************************)
(* SpecTimeout: SpecRun's protocol with the node timeout: a process call   *)
(* in flight may be cancelled, which the driver hands to handle_error.     *)
(***************************************************************************)
\* str(error) of the timeout handed to handle_error
TimeoutError == "timeout"

\* a call in flight is cancelled: CancelledError is raised at the await the
\* call is suspended in; it is not an Exception, so the except clauses of
\* process() and collaborate() do not run
ProcessCancelled(t) ==
    /\ UNCHANGED <<memory, context, knowledge_base>>
    /\ StoresStill
    /\ stack[t] # <<>>
    /\ stack' = [stack EXCEPT ![t] = <<>>]
    /\ UNCHANGED <<current_task, confidence, process_failures, collaborate_failures>>
    /\ outcome' = [outcome EXCEPT ![t] =
                     Outcome(stack[t][1].fn, stack[t][1].agent, stack[t][1].peer,
                             "cancelled", <<"CancelledError">>)]

\* timeout_seconds have passed and the node's process has not returned
RunTimeout(n) ==
    /\ Running /\ run[n].pc = "processing"
    /\ ProcessCancelled("t1")
    /\ UNCHANGED <<nodeVars, driverVars>>

\* the cancelled attempt is a failure for handle_error
RunHandleTimeout(n) ==
    /\ Running /\ run[n].pc = "processing"
    /\ stack["t1"] = <<>> /\ outcome["t1"].kind = "cancelled"
    /\ HandleError(n, TimeoutError)
    /\ run' = [run EXCEPT ![n].pc =
                 IF ret'.out = "RuntimeError" THEN "fatal" ELSE "ready"]
    /\ handled' = [handled EXCEPT ![n] = @ + 1]
    /\ UNCHANGED <<steps, pending, before, agentVars>>

NextTimeout ==
    \/ \E n \in Pipeline : RunStart(n)
    \/ \E n \in Pipeline : RunCheck(n)
    \/ \E n \in Pipeline : RunAttempt(n)
    \/ ProcessReturns("t1") /\ NodesStill
    \/ ProcessRaises("t1") /\ NodesStill
    \/ \E n \in Pipeline : RunTimeout(n)
    \/ \E n \in Pipeline : RunComplete(n)
    \/ \E n \in Pipeline : RunHandleError(n)
    \/ \E n \in Pipeline : RunHandleTimeout(n)

SpecTimeout == InitRun /\ [][NextTimeout]_vars

InitDefer ==
    /\ InitNodes
    /\ participating_agents =
         [n \in Instances |-> IF n \in Pipeline THEN BoundByAll(n) ELSE NoBinding]
    /\ steps = 0
    /\ handled = [n \in Instances |-> 0]
    /\ pending = NoPending
    /\ before = [t \in Tasks |-> NoBefore]
    /\ run = [n \in Instances |-> NotRun]
    /\ InitAgents

\* the graph is built before any node is started
BuildEdge(n, m) ==
    /\ \A k \in Pipeline : run[k].pc = "idle"
    /\ AddNextNode(n, m)
    /\ Still

\* the attempt in flight succeeds
RunSucceeds == ProcessReturns("t1") /\ NodesStill

\* the attempt in flight fails, the node's budget allowing another attempt
RunFails(n) ==
    /\ run[n].pc = "processing"
    /\ Len(errors[n]) + 1 < MaxIterations(n)
    /\ ProcessRaises("t1")
    /\ NodesStill

NextDefer ==
    \/ \E n \in Pipeline, m \in Pipeline : BuildEdge(n, m)
    \/ \E n \in Pipeline : RunStart(n)
    \/ \E n \in Pipeline : RunCheck(n)
    \/ \E n \in Pipeline : RunAttempt(n)
    \/ RunSucceeds
    \/ \E n \in Pipeline : RunFails(n)
    \/ \E n \in Pipeline : RunComplete(n)
    \/ \E n \in Pipeline : RunHandleError(n)

SpecDefer ==
    /\ InitDefer /\ [][NextDefer]_vars
    /\ \A n \in Pipeline :
          /\ WF_vars(RunStart(n)) /\ WF_vars(RunCheck(n)) /\ WF_vars(RunAttempt(n))
          /\ WF_vars(RunComplete(n)) /\ WF_vars(RunHandleError(n))
    /\ WF_vars(RunSucceeds)

\* C26 as stated: on every graph built with add_next_node, with the required
\* agents bound and attempts that succeed within the budget, the driver that
\* re-queues a node that is not ready eventually sees every node completed.
C26_EveryNodeCompletes == <>(\A n \in Pipeline : completed[n])

(***************************************************************************)
(* Claims about the life cycle of a node.                                  *)
(***************************************************************************)
\* C27 as stated: a node becomes completed only from the active state: when
\* completed turns true the node was active, started and with no
\* handle_error call that raised since that start().
C27_CompletedOnlyFromActive ==
    [][\A n \in Nodes :
         (completed'[n] /\ ~completed[n]) =>
             /\ active[n]
             /\ handled[n] < MaxIterations(n)
      ]_vars

\* C28: a handle_error call raises RuntimeError exactly when it is the
\* max_iterations-th or a later call since the node's latest start(), so
\* that after the first raise every further call raises again, whatever
\* complete() calls come in between; each call appends exactly one entry at
\* the end of the error list, and the list changes in no other way except
\* that start() empties it.
C28_RaisesAgainUntilStart ==
    [][\A n \in Nodes :
         /\ handled'[n] = handled[n] + 1 =>
               /\ ret'.op = "handle_error" /\ ret'.node = n
               /\ ret'.out = IF handled'[n] >= MaxIterations(n)
                             THEN "RuntimeError" ELSE "None"
               /\ Len(errors'[n]) = Len(errors[n]) + 1
         /\ errors'[n] # errors[n] =>
               \/ ret' = Returned("start", n, "None") /\ errors'[n] = <<>>
               \/ /\ handled'[n] = handled[n] + 1
                  /\ SubSeq(errors'[n], 1, Len(errors[n])) = errors[n]
      ]_vars

\* on the node with max_iterations 1, completed in between, the third call
\* since start() has raised again and the list holds the three errors in
\* call order
C28_Witness ==
    /\ ret = Raised("handle_error", "A", "RuntimeError", {})
    /\ handled["A"] = 3
    /\ errors["A"] = <<"e1", "e2", "e1">>
    /\ completed["A"]

(***************************************************************************)
(* SpecRounds: SpecRun's protocol with auto_loop: when every node of the   *)
(* pipeline is done the driver re-enters the graph, and each node is       *)
(* started again when the driver comes to it.                              *)
(***************************************************************************)
\* the driver begins the next round: no node has been dispatched in it yet;
\* no method of the nodes is called
RunReenter ==
    /\ \A n \in Pipeline : run[n].pc = "done"
    /\ steps < MaxSteps
    /\ steps' = steps + 1
    /\ run' = [n \in Instances |-> NotRun]
    /\ UNCHANGED <<nodeVars, handled, pending, before, agentVars>>

NextRounds ==
    \/ \E n \in Pipeline : RunStart(n)
    \/ \E n \in Pipeline : RunCheck(n)
    \/ \E n \in Pipeline : RunAttempt(n)
    \/ ProcessReturns("t1") /\ NodesStill
    \/ ProcessRaises("t1") /\ NodesStill
    \/ \E n \in Pipeline : RunComplete(n)
    \/ \E n \in Pipeline : RunHandleError(n)
    \/ RunReenter

SpecRounds == InitRun /\ [][NextRounds]_vars

\* C29 as stated: in every round of the graph, Q (the successor of P) gets
\* past validate_readiness only when P has completed in that round; P's
\* completed flag of the round before does not make Q ready.
C29_ReadyOnlyAfterPredecessorThisRound ==
    run["Q"].pc \in {"ready", "processing", "done"} => run["P"].pc = "done"

(***************************************************************************)
(* Claims about binding agents by name.                                    *)
(***************************************************************************)
\* C30 as stated: on a node on which connect_agent has been called with the
\* registry agent of every required name, validate_readiness does not raise
\* for missing agents, also when an agent's personality name is not its
\* registry key.
C30_BoundNodeDoesNotRaise ==
    ret.op = "validate_readiness" => ret.out # "ValueError"

(***************************************************************************)
(* Claims about the bindings of a node.                                    *)
(***************************************************************************)
\* C31: the keys of participating_agents are always among required_agents;
\* connect_agent with an agent whose lower-cased name is not required
\* changes neither the bindings nor NodeState, with a required one it leaves
\* exactly one binding under that name, and no operation removes a binding
\* or changes one other than connect_agent on that node.
C31_BindingsAreRequiredAndKept ==
    [][\A n \in Nodes :
         /\ DOMAIN participating_agents[n] \subseteq RequiredAgents(n)
         /\ DOMAIN participating_agents'[n] \subseteq RequiredAgents(n)
         /\ DOMAIN participating_agents[n] \subseteq DOMAIN participating_agents'[n]
         /\ participating_agents'[n] # participating_agents[n] =>
               ret'.op = "connect_agent" /\ ret'.node = n
         /\ (ret'.op = "connect_agent" /\ ret'.node = n) =>
               \A a \in ret'.info :
                  LET key == Lower(PersonalityName(a)) IN
                  /\ UNCHANGED <<active, completed, iteration, results, errors, heap>>
                  /\ IF key \in RequiredAgents(n)
                     THEN /\ DOMAIN participating_agents'[n] =
                               DOMAIN participating_agents[n] \cup {key}
                          /\ participating_agents'[n][key] = a
                     ELSE participating_agents' = participating_agents
      ]_vars

\* the Researcher was connected to B, B was started, and the Researcher was
\* connected again: one binding
C31_Witness ==
    /\ ret = [Returned("connect_agent", "B", "None") EXCEPT !.info = {"researcher"}]
    /\ steps = 3
    /\ active["B"]
    /\ DOMAIN participating_agents["B"] = {"researcher"}

(***************************************************************************)
(* Claims about the calls between agents.                                  *)
(***************************************************************************)
\* C32: the calls in flight are never more than two deep: a collaborate()
\* call has the peer's process() above it, entered once when collaborate()
\* begins and never again, nothing is above a process(), and every step of a
\* call in flight ends one of its frames, so that each call ends; the caller
\* and the peer may be the same agent.
C32_CallDepthBounded ==
    [][LET s == stack["t1"]
           z == stack'["t1"]
       IN
       /\ Len(z) <= 2
       /\ Len(z) = 2 =>
             /\ s = <<>>
             /\ z[1].fn = "collaborate"
             /\ z[2] = Frame("process", z[1].peer, "-")
       /\ (Len(z) = 1 /\ s = <<>>) => z[1].fn = "process"
       /\ (Len(z) = 1 /\ s # <<>>) => z = <<s[1]>> /\ s[1].fn = "collaborate"
       /\ s # <<>> => Len(z) < Len(s)
      ]_vars

\* an agent's collaborate() with itself as the peer has returned
C32_Witness ==
    /\ outcome["t1"].fn = "collaborate"
    /\ outcome["t1"].kind = "returned"
    /\ outcome["t1"].agent = outcome["t1"].peer
    /\ stack["t1"] = <<>>

\* C33 as stated: when the peer's process() fails inside X.collaborate(peer),
\* X's confidence is multiplied by 0.9 and by nothing else, also when the
\* peer is X itself.
C33_CallerLosesOneFactor ==
    [][LET s == stack["t1"] IN
       (/\ Len(s) = 2
        /\ s[1].fn = "collaborate"
        /\ process_failures'[s[2].agent] = process_failures[s[2].agent] + 1)
       =>
       Same(confidence'[s[1].agent], Times(confidence[s[1].agent], CollaboratePenalty))
      ]_vars

\* C33, amended: when the peer's process() fails inside X.collaborate(peer),
\* the failed collaboration costs X one factor 0.9 and the failed process()
\* costs the peer one factor 0.8; for another peer X's confidence is
\* multiplied by 0.9 only, and for X.collaborate(X) X is the caller and the
\* peer, its confidence being multiplied by 0.9 * 0.8 = 0.72.
C33_CallerLosesOneFactorPerRole ==
    [][LET s == stack["t1"]
           X == s[1].agent
           Y == s[2].agent
       IN
       (/\ Len(s) = 2
        /\ s[1].fn = "collaborate"
        /\ process_failures'[Y] = process_failures[Y] + 1)
       =>
       /\ collaborate_failures'[X] = collaborate_failures[X] + 1
       /\ Same(confidence'[X],
               Times(confidence[X],
                     IF X = Y THEN Times(CollaboratePenalty, ProcessPenalty)
                              ELSE CollaboratePenalty))
       /\ X # Y => Same(confidence'[Y], Times(confidence[Y], ProcessPenalty))
      ]_vars

\* the Analyst's collaborate() with itself has raised because its process()
\* raised, and its confidence went from 1.0 to 0.72
C33_Witness ==
    /\ outcome["t1"].fn = "collaborate"
    /\ outcome["t1"].agent = "analyst"
    /\ outcome["t1"].peer = "analyst"
    /\ outcome["t1"].kind = "raised"
    /\ Failures = 2
    /\ Same(confidence["analyst"], <<72, 100>>)

\* C34: with two tasks interleaved at their suspension points, no confidence
\* update is lost: whatever the order in which the calls of the two tasks
\* begin and fail, an agent with k failed process() calls and m failed
\* collaborate() calls has confidence 0.8^k * 0.9^m times its initial 1.0,
\* while calls are in flight and after they have ended.
C34_NoUpdateLostUnderInterleaving ==
    \A a \in Agents :
        Same(confidence[a],
             Times(Times(One, Power(ProcessPenalty, process_failures[a])),
                   Power(CollaboratePenalty, collaborate_failures[a])))

\* C34 witness: the Strategist's process() has failed in one task and its
\* collaborate() with itself in the other, whose process() is the call that
\* suspends in the knowledge base: k = 2, m = 1, 0.8^2 * 0.9 = 0.576
C34_Witness ==
    /\ outcome["t1"].kind = "raised"
    /\ outcome["t1"].fn = "process"
    /\ outcome["t1"].agent = "strategist"
    /\ outcome["t2"].kind = "raised"
    /\ outcome["t2"].fn = "collaborate"
    /\ outcome["t2"].agent = "strategist"
    /\ outcome["t2"].peer = "strategist"
    /\ process_failures["strategist"] = 2
    /\ collaborate_failures["strategist"] = 1
    /\ Same(confidence["strategist"], <<576, 1000>>)

\* C35: a failed process() call leaves no partial result behind: in every
\* step in which a process() call fails, the result stores of the agents
\* (the histories and plans, the Analyst's current_analysis and the
\* Synthesizer's concept_network) are what they were before the step.
C35_FailedProcessLeavesStores ==
    [][(\E a \in Agents : process_failures'[a] = process_failures[a] + 1)
         => /\ history' = history
            /\ current_analysis' = current_analysis
            /\ concept_network' = concept_network]_vars

\* C36: start() clears only the node's own stored results: in every step
\* that is a start(), each results object of a caller (one that was, or was
\* not, passed to a complete()) has the contents it had before the step.
C36_StartKeepsCallersResults ==
    [][ret'.op = "start" => \A d \in CallerDicts : heap'[d] = heap[d]]_vars

(***************************************************************************)
(* SpecFresh: process() called on agents as their classes define them: no  *)
(* knowledge base attached, the helper methods not overridden. What a call *)
(* does is then decided by the code alone.                                 *)
(***************************************************************************)
\* the issues that _identify_issues collects from the three helpers of the
\* Challenger, each of which returns one
DefaultIssues == 3

\* process() of agent a raises with the helpers as defined: the Strategist's
\* first stage reads the knowledge base; the Challenger builds one challenge
\* per issue and reads keys from the first that _generate_challenges has not
\* put there
DefaultProcessRaises(a) ==
    \/ ReadsKnowledgeBase(a) /\ knowledge_base[a] = "None"
    \/ a = "challenger" /\ DefaultIssues > 0
                        /\ ~(StoredChallengeKeys \subseteq ChallengeKeys)

\* the agent whose process() is in flight in task t
Callee(t) == stack[t][Len(stack[t])].agent

NextFresh ==
    \/ \E t \in Tasks, a \in Agents :
         CanRun(t) /\ CallProcess(t, a) /\ NodesStill
    \/ \E t \in Tasks :
         /\ stack[t] # <<>>
         /\ ~DefaultProcessRaises(Callee(t))
         /\ ProcessReturns(t) /\ NodesStill
    \/ \E t \in Tasks :
         /\ stack[t] # <<>>
         /\ DefaultProcessRaises(Callee(t))
         /\ ProcessRaises(t) /\ NodesStill

SpecFresh == Init /\ [][NextFresh]_vars

\* C37: process() on an agent as constructed (default helpers, no knowledge
\* base) succeeds and leaves its confidence at 1.0, for each of the seven
\* agents: a first call of process() on an agent, once over, has returned,
\* and the agent's confidence is 1.0.
C37_FreshProcessSucceeds ==
    \A t \in Tasks :
        /\ outcome[t].fn = "process"
        /\ outcome[t].kind # "-"
        /\ process_failures[outcome[t].agent] <= 1
        /\ history[outcome[t].agent] \subseteq {t}
        => /\ outcome[t].kind = "returned"
           /\ Same(confidence[outcome[t].agent], One)

\* C38: update_state(new_state) assigns exactly the keys of new_state that
\* are AgentState fields, ignores every other key without error and leaves
\* the fields not named in new_state as they were; and no other operation
\* increases an agent's confidence. In every step: an update_state call
\* returns, and changes of the called agent only fields that are among its
\* keys, and nothing of any other agent; any other step increases no
\* confidence.
C38_UpdateStateAssignsFieldsOnly ==
    [][LET o == outcome'["t1"]
           Kept(field, name) ==
               \A b \in Agents :
                   (b # o.agent \/ name \notin o.carries \cap StateKeys)
                       => field'[b] = field[b]
       IN
       IF o.fn = "update_state"
       THEN /\ o.kind = "returned"
            /\ Kept(current_task, "current_task")
            /\ Kept(confidence, "confidence")
            /\ Kept(memory, "memory")
            /\ Kept(context, "context")
       ELSE \A b \in Agents : AtMost(confidence'[b], confidence[b])]_vars

\* C39: a node's iteration counter is the number of failed attempts recorded
\* since its latest start(): in every state iteration = len(errors), and
\* iteration <= max_iterations.
C39_IterationCountsErrors ==
    \A n \in Nodes :
        /\ iteration[n] = Len(errors[n])
        /\ iteration[n] <= MaxIterations(n)

====
